---------------------------- MODULE Spec2Model ----------------------------
(***************************************************************************)
(* Model of bitcoin-keygen (src/src/main.rs): the pipeline of main          *)
(* (entropy -> mnemonic -> seed -> master key -> fingerprint -> report      *)
(* files) and the text formatters it calls.                                 *)
(*                                                                          *)
(* Text is a sequence of characters; a character is a one-character         *)
(* string.  The non-ASCII characters of the source are written by their     *)
(* code point: "U2550" and "U2500" (the rule characters), "U26A0" "UFE0F"   *)
(* (the warning sign), "U25A1" (the check box), "U2713" (the check mark).   *)
(***************************************************************************)
EXTENDS Integers, Sequences, FiniteSets, TLC

\* ------------------------------------------------------------------------
\* Bounds of the model
\* ------------------------------------------------------------------------

\* Number of distinct entropy samples the entropy source can return.
NumEntropy == 2

\* Largest word count the formatters are applied to besides 24.
MaxWords == 9

\* Number of entropy samples the formatters are applied to.
NumTestEntropy == 3

\* ------------------------------------------------------------------------
\* Program constants
\* ------------------------------------------------------------------------

\* let mut entropy = [0u8; 32]
EntropyBytes == 32

\* 256 bits = 24 words
WordCount == 24

\* format!("{:2}. ...", word_num, ...)
IndexWidth == 2

\* format!("... {:12}", ..., word)
WordWidth == 12

\* if word_num % 4 == 0
GridColumns == 4

\* format!("{:08x}", ...)
FingerprintWidth == 8

\* ------------------------------------------------------------------------
\* Strings
\* ------------------------------------------------------------------------

NL == "\n"

Rep(c, n) == [i \in 1..n |-> c]

\* s[i..] starts with pat
MatchAt(s, pat, i) ==
    /\ i >= 1
    /\ i + Len(pat) - 1 <= Len(s)
    /\ \A k \in 1..Len(pat) : s[i + k - 1] = pat[k]

\* str::find starting at position from: the first index, 0 when there is none
Find(s, pat, from) ==
    LET last == Len(s) - Len(pat) + 1
        Hit(i) == IF Len(pat) = 0 THEN TRUE
                  ELSE s[i] = pat[1] /\ MatchAt(s, pat, i)
    IN  IF \E i \in from..last : Hit(i)
        THEN CHOOSE i \in from..last :
                 Hit(i) /\ \A j \in from..(i - 1) : ~Hit(j)
        ELSE 0

\* str::contains
Contains(s, pat) == \E i \in 1..(Len(s) - Len(pat) + 1) : MatchAt(s, pat, i)

\* number of (possibly overlapping) occurrences
Occurrences(s, pat) ==
    Cardinality({i \in 1..(Len(s) - Len(pat) + 1) : MatchAt(s, pat, i)})

\* str::split('\n'): the pieces between newline characters, a trailing
\* newline giving a last empty piece
Split(s) ==
    LET IsCut(i) == s[i] = NL
        \* the positions of the newline characters, in increasing order
        cuts == SelectSeq([i \in 1..Len(s) |-> i], IsCut)
        n == Len(cuts)
    IN  [k \in 1..(n + 1) |->
            SubSeq(s, IF k = 1 THEN 1 ELSE cuts[k - 1] + 1,
                      IF k = n + 1 THEN Len(s) ELSE cuts[k] - 1)]

\* str::lines(): as Split, without the last piece when it is empty
Lines(s) ==
    LET p == Split(s)
    IN  IF p[Len(p)] = <<>> THEN SubSeq(p, 1, Len(p) - 1) ELSE p

\* [&str]::join(sep)
RECURSIVE Join(_, _)
Join(words, sep) ==
    IF Len(words) = 0 THEN <<>>
    ELSE IF Len(words) = 1 THEN words[1]
    ELSE words[1] \o sep \o Join(Tail(words), sep)

RECURSIVE Concat(_)
Concat(ss) == IF Len(ss) = 0 THEN <<>> ELSE ss[1] \o Concat(Tail(ss))

\* ------------------------------------------------------------------------
\* std::fmt
\* ------------------------------------------------------------------------

DecDigit == <<"0","1","2","3","4","5","6","7","8","9">>
HexDigit == <<"0","1","2","3","4","5","6","7","8","9","a","b","c","d","e","f">>

\* Display for unsigned integers: no leading zeros, "0" for zero
RECURSIVE Decimal(_)
Decimal(n) ==
    IF n < 10 THEN <<DecDigit[n + 1]>>
    ELSE Decimal(n \div 10) \o <<DecDigit[(n % 10) + 1]>>

\* LowerHex for unsigned integers: no leading zeros, "0" for zero
RECURSIVE LowerHex(_)
LowerHex(n) ==
    IF n < 16 THEN <<HexDigit[n + 1]>>
    ELSE LowerHex(n \div 16) \o <<HexDigit[(n % 16) + 1]>>

\* {:width}: numbers are right-aligned, filled with spaces; never truncated
PadLeft(s, width, fill) ==
    IF Len(s) >= width THEN s ELSE Rep(fill, width - Len(s)) \o s

\* {:width}: strings are left-aligned, filled with spaces; never truncated
PadRight(s, width) ==
    IF Len(s) >= width THEN s ELSE s \o Rep(" ", width - Len(s))

\* format!("{:2}", n)
FmtIndex(n) == PadLeft(Decimal(n), IndexWidth, " ")

\* format!("{:12}", word)
FmtWord(word) == PadRight(word, WordWidth)

\* ------------------------------------------------------------------------
\* External collaborators: entropy source, bip39, bip32
\* ------------------------------------------------------------------------

\* What getrandom::fill can put in the buffer: NumEntropy samples of
\* EntropyBytes bytes each.
EntropySample(s) ==
    [i \in 1..EntropyBytes |-> (s * 41 + i * (2 * s + 1) * 7) % 256]

EntropySamples == {EntropySample(s) : s \in 1..NumEntropy}

\* Stand-in for the 2048-word English list of the bip39 crate: eight of its
\* words, of every length from 3 to 8.
WordList == <<
    <<"a","b","a","n","d","o","n">>, <<"z","o","o">>, <<"a","b","l","e">>, <<"a","b","o","u","t">>,
    <<"a","b","s","u","r","d">>, <<"a","b","s","t","r","a","c","t">>, <<"a","c","t">>, <<"z","e","b","r","a">> >>

\* Stand-in for the first byte of SHA-256 of the entropy (the checksum
\* bits bip39 appends to 256 bits of entropy).
ChecksumByte(entropy) ==
    LET RECURSIVE Sum(_)
        Sum(i) == IF i = 0 THEN 0 ELSE (Sum(i - 1) * 31 + entropy[i]) % 256
    IN  Sum(Len(entropy))

\* Mnemonic::from_entropy: the entropy bits followed by the checksum bits,
\* cut in groups of 11 bits, each the index of a word.  A mnemonic is the
\* sequence of word indices, as in the crate.
MnemonicFromEntropy(entropy) ==
    LET bytes == entropy \o <<ChecksumByte(entropy)>>
        bit(j) == (bytes[(j \div 8) + 1] \div (2 ^ (7 - (j % 8)))) % 2
        RECURSIVE Group(_, _)
        Group(w, k) ==
            IF k = 0 THEN 0 ELSE 2 * Group(w, k - 1) + bit(11 * w + k - 1)
    IN  [w \in 1..((8 * Len(entropy) + (8 * Len(entropy)) \div 32) \div 11) |->
            Group(w - 1, 11)]

\* Mnemonic::words
Words(mnemonic) ==
    [i \in 1..Len(mnemonic) |-> WordList[(mnemonic[i] % Len(WordList)) + 1]]

\* Mnemonic::to_seed (PBKDF2), kept as a term over its inputs.
NoSeed == [kdf |-> "none", mnemonic |-> <<>>, passphrase |-> <<>>]

\* Xpriv::new_master, kept as a term over its inputs; ident stands for the
\* first four bytes of HASH160 of the public key (Xpriv::fingerprint).
NoKey == [network |-> "none", seed |-> NoSeed, ident |-> <<>>]

Hash160Prefix(seed) ==
    LET m == seed.mnemonic
        RECURSIVE Mix(_, _)
        Mix(k, j) ==
            IF j = 0 THEN 17 * k + Len(seed.passphrase)
            ELSE (Mix(k, j - 1) * 31 + m[j] * (2 * k + 1)) % 256
    IN  [k \in 1..4 |-> Mix(k, Len(m))]

\* generate_seed
GenerateSeed(mnemonic, passphrase) ==
    [kdf |-> "PBKDF2", mnemonic |-> mnemonic, passphrase |-> passphrase]

\* derive_master_key (the Ok case)
DeriveMasterKey(seed, network) ==
    [network |-> network, seed |-> seed, ident |-> Hash160Prefix(seed)]

\* ------------------------------------------------------------------------
\* get_hardware_wallet_fingerprint
\* ------------------------------------------------------------------------

\* u32::from_be_bytes: the value b[1]*2^24 + b[2]*2^16 + b[3]*2^8 + b[4],
\* kept as its two 16-bit halves.
U32FromBeBytes(b) == [hi |-> b[1] * 256 + b[2], lo |-> b[3] * 256 + b[4]]

\* LowerHex of a u32: the digits of hi * 2^16 + lo, no leading zeros
LowerHexU32(n) ==
    IF n.hi = 0 THEN LowerHex(n.lo)
    ELSE LowerHex(n.hi) \o PadLeft(LowerHex(n.lo), 4, "0")

\* Variant, not part of the model: "{:x}", no zero fill.
FmtFingerprintUnpadded(n) == LowerHexU32(n)

\* format!("{:08x}", n): zero-filled to 8 digits
FmtFingerprint(n) == PadLeft(LowerHexU32(n), FingerprintWidth, "0")

GetHardwareWalletFingerprint(key) == FmtFingerprint(U32FromBeBytes(key.ident))

\* ------------------------------------------------------------------------
\* create_printable_output
\* ------------------------------------------------------------------------

HeaderText ==
    <<>>
    \* line 67: "<63 x U2550>\n"
    \o Rep("U2550", 63) \o <<"\n">>
    \* line 68: "           BITCOIN SEED PHRASE - METAL PLATE BACKUP\n"
    \o <<" "," "," "," "," "," "," "," "," "," "," ","B","I","T","C","O","I","N"," ","S","E","E","D"," ","P","H","R","A","S","E"," ","-"," ","M","E","T","A","L"," ","P","L","A","T","E"," ","B","A","C","K","U","P","\n">>
    \* line 69: "<63 x U2550>\n\n"
    \o Rep("U2550", 63) \o <<"\n","\n">>

MetadataText(label, timestamp, fingerprint) ==
    \* line 72: format!("Label: {}\n", label)
    <<"L","a","b","e","l",":"," ">> \o label \o <<NL>>
    \* line 73: format!("Generated: {}\n", timestamp)
    \o <<"G","e","n","e","r","a","t","e","d",":"," ">> \o timestamp \o <<NL>>
    \* line 74: format!("Fingerprint: {}\n", fingerprint)
    \o <<"F","i","n","g","e","r","p","r","i","n","t",":"," ">> \o fingerprint \o <<NL>>
    \* line 75: format!("Word Count: 24 words (256 bits entropy)\n")
    \o <<"W","o","r","d"," ","C","o","u","n","t",":"," ","2","4"," ","w","o","r","d","s"," ","(","2","5","6"," ","b","i","t","s"," ","e","n","t","r","o","p","y",")","\n">>
    \* line 76: format!("Network: Bitcoin Mainnet\n\n")
    \o <<"N","e","t","w","o","r","k",":"," ","B","i","t","c","o","i","n"," ","M","a","i","n","n","e","t","\n","\n">>

WarningText ==
    <<>>
    \* line 79: "\u26a0\ufe0f  SECURITY WARNING \u26a0\ufe0f\n"
    \o <<"U26A0","UFE0F"," "," ","S","E","C","U","R","I","T","Y"," ","W","A","R","N","I","N","G"," ","U26A0","UFE0F","\n">>
    \* line 80: "<61 x U2500>\n"
    \o Rep("U2500", 61) \o <<"\n">>
    \* line 81: "This seed phrase provides full access to your Bitcoin wallet.\n"
    \o <<"T","h","i","s"," ","s","e","e","d"," ","p","h","r","a","s","e"," ","p","r","o","v","i","d","e","s"," ","f","u","l","l"," ","a","c","c","e","s","s"," ","t","o"," ","y","o","u","r"," ","B","i","t","c","o","i","n"," ","w","a","l","l","e","t",".","\n">>
    \* line 82: "Store this metal plate in a secure, fireproof location.\n"
    \o <<"S","t","o","r","e"," ","t","h","i","s"," ","m","e","t","a","l"," ","p","l","a","t","e"," ","i","n"," ","a"," ","s","e","c","u","r","e",","," ","f","i","r","e","p","r","o","o","f"," ","l","o","c","a","t","i","o","n",".","\n">>
    \* line 83: "Never share this seed phrase with anyone.\n"
    \o <<"N","e","v","e","r"," ","s","h","a","r","e"," ","t","h","i","s"," ","s","e","e","d"," ","p","h","r","a","s","e"," ","w","i","t","h"," ","a","n","y","o","n","e",".","\n">>
    \* line 84: "<61 x U2500>\n\n"
    \o Rep("U2500", 61) \o <<"\n","\n">>

SeedWordsHeading ==
    <<>>
    \* line 87: "SEED WORDS (Punch these in order):\n"
    \o <<"S","E","E","D"," ","W","O","R","D","S"," ","(","P","u","n","c","h"," ","t","h","e","s","e"," ","i","n"," ","o","r","d","e","r",")",":","\n">>
    \* line 88: "<63 x U2550>\n\n"
    \o Rep("U2550", 63) \o <<"\n","\n">>

\* line 93-100: one cell of the grid and what follows it
GridCell(word_num, word) ==
    FmtIndex(word_num) \o <<"."," ">> \o FmtWord(word)
    \o (IF word_num % GridColumns = 0 THEN <<NL>> ELSE <<" "," ">>)

\* Variant, not part of the model: without lines 104-106.
WordGridUnterminated(words) ==
    Concat([i \in 1..Len(words) |-> GridCell(i, words[i])])

\* lines 91-106: rows of 4
WordGrid(words) ==
    Concat([i \in 1..Len(words) |-> GridCell(i, words[i])])
    \o (IF Len(words) % GridColumns # 0 THEN <<NL>> ELSE <<>>)

ChecklistText ==
    <<>>
    \* line 108: "\n"
    \o <<"\n">>
    \* line 109: "<63 x U2550>\n"
    \o Rep("U2550", 63) \o <<"\n">>
    \* line 110: "VERIFICATION CHECKLIST:\n"
    \o <<"V","E","R","I","F","I","C","A","T","I","O","N"," ","C","H","E","C","K","L","I","S","T",":","\n">>
    \* line 111: "<61 x U2500>\n"
    \o Rep("U2500", 61) \o <<"\n">>
    \* line 112: "\u25a1 All 24 words are clearly readable\n"
    \o <<"U25A1"," ","A","l","l"," ","2","4"," ","w","o","r","d","s"," ","a","r","e"," ","c","l","e","a","r","l","y"," ","r","e","a","d","a","b","l","e","\n">>
    \* line 113: "\u25a1 Words are in correct numerical order (1-24)\n"
    \o <<"U25A1"," ","W","o","r","d","s"," ","a","r","e"," ","i","n"," ","c","o","r","r","e","c","t"," ","n","u","m","e","r","i","c","a","l"," ","o","r","d","e","r"," ","(","1","-","2","4",")","\n">>
    \* line 114: "\u25a1 Fingerprint matches hardware wallet device\n"
    \o <<"U25A1"," ","F","i","n","g","e","r","p","r","i","n","t"," ","m","a","t","c","h","e","s"," ","h","a","r","d","w","a","r","e"," ","w","a","l","l","e","t"," ","d","e","v","i","c","e","\n">>
    \* line 115: "\u25a1 Metal plate is stored in secure location\n"
    \o <<"U25A1"," ","M","e","t","a","l"," ","p","l","a","t","e"," ","i","s"," ","s","t","o","r","e","d"," ","i","n"," ","s","e","c","u","r","e"," ","l","o","c","a","t","i","o","n","\n">>
    \* line 116: "\u25a1 Backup copy exists in separate location\n"
    \o <<"U25A1"," ","B","a","c","k","u","p"," ","c","o","p","y"," ","e","x","i","s","t","s"," ","i","n"," ","s","e","p","a","r","a","t","e"," ","l","o","c","a","t","i","o","n","\n">>
    \* line 117: "<63 x U2550>\n\n"
    \o Rep("U2550", 63) \o <<"\n","\n">>

SingleColumnHeading ==
    <<>>
    \* line 120: "\n\nSINGLE COLUMN FORMAT (Alternative punching reference):\n"
    \o <<"\n","\n","S","I","N","G","L","E"," ","C","O","L","U","M","N"," ","F","O","R","M","A","T"," ","(","A","l","t","e","r","n","a","t","i","v","e"," ","p","u","n","c","h","i","n","g"," ","r","e","f","e","r","e","n","c","e",")",":","\n">>
    \* line 121: "<63 x U2550>\n"
    \o Rep("U2550", 63) \o <<"\n">>

\* Variant, not part of the model: i instead of i + 1.
SingleColumnZeroBased(words) ==
    Concat([i \in 1..Len(words) |->
               FmtIndex(i - 1) \o <<"."," ">> \o words[i] \o <<NL>>])

\* lines 122-124
SingleColumn(words) ==
    Concat([i \in 1..Len(words) |-> FmtIndex(i) \o <<"."," ">> \o words[i] \o <<NL>>])

SingleColumnRule ==
    <<>>
    \* line 125: "<63 x U2550>\n\n"
    \o Rep("U2550", 63) \o <<"\n","\n">>

InstructionsText(fingerprint) ==
    <<>>
    \* line 128: "HARDWARE WALLET IMPORT INSTRUCTIONS:\n"
    \o <<"H","A","R","D","W","A","R","E"," ","W","A","L","L","E","T"," ","I","M","P","O","R","T"," ","I","N","S","T","R","U","C","T","I","O","N","S",":","\n">>
    \* line 129: "<61 x U2500>\n"
    \o Rep("U2500", 61) \o <<"\n">>
    \* line 130: "This seed phrase is compatible with all BIP39 hardware wallets\n"
    \o <<"T","h","i","s"," ","s","e","e","d"," ","p","h","r","a","s","e"," ","i","s"," ","c","o","m","p","a","t","i","b","l","e"," ","w","i","t","h"," ","a","l","l"," ","B","I","P","3","9"," ","h","a","r","d","w","a","r","e"," ","w","a","l","l","e","t","s","\n">>
    \* line 131: "(Coldcard, Trezor, Ledger, BitBox, etc.).\n\n"
    \o <<"(","C","o","l","d","c","a","r","d",","," ","T","r","e","z","o","r",","," ","L","e","d","g","e","r",","," ","B","i","t","B","o","x",","," ","e","t","c",".",")",".","\n","\n">>
    \* line 132: "Example - Coldcard:\n"
    \o <<"E","x","a","m","p","l","e"," ","-"," ","C","o","l","d","c","a","r","d",":","\n">>
    \* line 133: "1. Power on your Coldcard device\n"
    \o <<"1","."," ","P","o","w","e","r"," ","o","n"," ","y","o","u","r"," ","C","o","l","d","c","a","r","d"," ","d","e","v","i","c","e","\n">>
    \* line 134: "2. Navigate to: Advanced > Danger Zone > Seed Functions > Import Existing\n"
    \o <<"2","."," ","N","a","v","i","g","a","t","e"," ","t","o",":"," ","A","d","v","a","n","c","e","d"," ",">"," ","D","a","n","g","e","r"," ","Z","o","n","e"," ",">"," ","S","e","e","d"," ","F","u","n","c","t","i","o","n","s"," ",">"," ","I","m","p","o","r","t"," ","E","x","i","s","t","i","n","g","\n">>
    \* line 135: "3. Select '24 words' when prompted\n"
    \o <<"3","."," ","S","e","l","e","c","t"," ","'","2","4"," ","w","o","r","d","s","'"," ","w","h","e","n"," ","p","r","o","m","p","t","e","d","\n">>
    \* line 136: "4. Enter the 24 words in order (1-24)\n"
    \o <<"4","."," ","E","n","t","e","r"," ","t","h","e"," ","2","4"," ","w","o","r","d","s"," ","i","n"," ","o","r","d","e","r"," ","(","1","-","2","4",")","\n">>
    \* line 137-140: format!("5. Verify the fingerprint matches: {}\n", fingerprint)
    \o <<"5","."," ","V","e","r","i","f","y"," ","t","h","e"," ","f","i","n","g","e","r","p","r","i","n","t"," ","m","a","t","c","h","e","s",":"," ">> \o fingerprint \o <<NL>>
    \* line 141: "6. Set a secure PIN code\n"
    \o <<"6","."," ","S","e","t"," ","a"," ","s","e","c","u","r","e"," ","P","I","N"," ","c","o","d","e","\n">>
    \* line 142: "7. Test with a small transaction before storing large amounts\n\n"
    \o <<"7","."," ","T","e","s","t"," ","w","i","t","h"," ","a"," ","s","m","a","l","l"," ","t","r","a","n","s","a","c","t","i","o","n"," ","b","e","f","o","r","e"," ","s","t","o","r","i","n","g"," ","l","a","r","g","e"," ","a","m","o","u","n","t","s","\n","\n">>
    \* line 143: "For other hardware wallets, follow their specific recovery/import process.\n"
    \o <<"F","o","r"," ","o","t","h","e","r"," ","h","a","r","d","w","a","r","e"," ","w","a","l","l","e","t","s",","," ","f","o","l","l","o","w"," ","t","h","e","i","r"," ","s","p","e","c","i","f","i","c"," ","r","e","c","o","v","e","r","y","/","i","m","p","o","r","t"," ","p","r","o","c","e","s","s",".","\n">>
    \* line 144: "<61 x U2500>\n\n"
    \o Rep("U2500", 61) \o <<"\n","\n">>

FooterText ==
    <<>>
    \* line 147: "Generated by bitcoin-keygen (air-gapped system)\n"
    \o <<"G","e","n","e","r","a","t","e","d"," ","b","y"," ","b","i","t","c","o","i","n","-","k","e","y","g","e","n"," ","(","a","i","r","-","g","a","p","p","e","d"," ","s","y","s","t","e","m",")","\n">>
    \* line 148: "<63 x U2550>\n"
    \o Rep("U2550", 63) \o <<"\n">>

CreatePrintableOutput(mnemonic, fingerprint, label, timestamp) ==
    LET words == Words(mnemonic)
    IN  HeaderText
        \o MetadataText(label, timestamp, fingerprint)
        \o WarningText
        \o SeedWordsHeading
        \o WordGrid(words)
        \o ChecklistText
        \o SingleColumnHeading
        \o SingleColumn(words)
        \o SingleColumnRule
        \o InstructionsText(fingerprint)
        \o FooterText

\* ------------------------------------------------------------------------
\* create_simple_word_list
\* ------------------------------------------------------------------------

\* Variant, not part of the model: "{}" instead of "{:2}".
CreateSimpleWordListUnaligned(mnemonic) ==
    LET words == Words(mnemonic)
    IN  Concat([i \in 1..Len(words) |->
                   Decimal(i) \o <<"."," ">> \o words[i] \o <<NL>>])

CreateSimpleWordList(mnemonic) ==
    LET words == Words(mnemonic)
    IN  Concat([i \in 1..Len(words) |-> FmtIndex(i) \o <<"."," ">> \o words[i] \o <<NL>>])

\* Variant, not part of the model: a newline after every word.
ImportListTerminated(mnemonic) ==
    Concat([i \in 1..Len(mnemonic) |-> Words(mnemonic)[i] \o <<NL>>])

\* main, line 213: mnemonic.words().collect::<Vec<_>>().join("\n")
ImportList(mnemonic) == Join(Words(mnemonic), <<NL>>)

\* ------------------------------------------------------------------------
\* State
\* ------------------------------------------------------------------------

VARIABLES
    pc,                 \* the statement of main (or of a test) about to run
    entropy,            \* generate_mnemonic: let mut entropy
    mnemonic,           \* let mnemonic (word indices)
    seed,               \* let seed
    master_key,         \* let master_key
    fingerprint,        \* let fingerprint
    label,              \* let label
    printable_content,  \* let printable_content
    word_list,          \* let word_list
    import_list,        \* the joined words handed to the last fs::write
    dir_exists,         \* the directory "output" exists
    files,              \* the three files of "output": existence and contents
    console,            \* lines printed so far by this run
    exit_code,          \* -1 while running, then the exit status
    trace,              \* history: the stages this run has entered, in order
    failed,             \* history: the stage that returned Err, or "none"
    files0,             \* history: files when this run started
    console_args,       \* history: the values interpolated into console lines
    file_args           \* history: the values interpolated into each file

vars == <<pc, entropy, mnemonic, seed, master_key, fingerprint, label,
          printable_content, word_list, import_list, dir_exists, files,
          console, exit_code, trace, failed, files0, console_args, file_args>>

locals == <<entropy, mnemonic, seed, master_key, fingerprint, label,
            printable_content, word_list, import_list>>

disk == <<dir_exists, files>>

history == <<trace, failed, files0, console_args, file_args>>

FileNames == {"seed_phrase_printable.txt", "seed_words_simple.txt",
              "seed_words_for_coldcard.txt"}

NoFile == [exists |-> FALSE, data |-> <<>>]

\* let output_dir = "output"
OutputDir == <<"o","u","t","p","u","t">>

\* format!("{}/<name>", output_dir)
PrintableFile == OutputDir \o <<"/","s","e","e","d","_","p","h","r","a","s","e","_","p","r","i","n","t","a","b","l","e",".","t","x","t">>
WordListFile == OutputDir \o <<"/","s","e","e","d","_","w","o","r","d","s","_","s","i","m","p","l","e",".","t","x","t">>
SeedWordsFile == OutputDir \o <<"/","s","e","e","d","_","w","o","r","d","s","_","f","o","r","_","c","o","l","d","c","a","r","d",".","t","x","t">>

\* unwrap_or_else(|| "Bitcoin Wallet".to_string())
DefaultLabel == <<"B","i","t","c","o","i","n"," ","W","a","l","l","e","t">>

\* What std::env::args().nth(1) can be: nothing (<<>> of arguments) or one
\* of these labels.
ArgLabels == {<<"T","e","s","t"," ","W","a","l","l","e","t">>}

\* What Local::now().format("%Y-%m-%d %H:%M:%S") can be.
Timestamps == {<<"2","0","2","5","-","0","1","-","3","1"," ","2","3",":","5","9",":","0","7">>}

\* What is left of a file when writing new over it fails: the open failed
\* (old is kept), or the file was truncated and none or part of new arrived.
FailedWrites(old, new) ==
    {old, [exists |-> TRUE, data |-> <<>>],
          [exists |-> TRUE, data |-> SubSeq(new, 1, Len(new) \div 2)]}

\* ------------------------------------------------------------------------
\* main
\* ------------------------------------------------------------------------

NoLocals ==
    /\ entropy = <<>>
    /\ mnemonic = <<>>
    /\ seed = NoSeed
    /\ master_key = NoKey
    /\ fingerprint = <<>>
    /\ label = <<>>
    /\ printable_content = <<>>
    /\ word_list = <<>>
    /\ import_list = <<>>

\* A process about to run main, on a disk where "output" does not exist.
Init ==
    /\ pc = "start"
    /\ NoLocals
    /\ dir_exists = FALSE
    /\ files = [f \in FileNames |-> NoFile]
    /\ console = <<>>
    /\ exit_code = -1
    /\ trace = <<>>
    /\ failed = "none"
    /\ files0 = files
    /\ console_args = {}
    /\ file_args = [f \in FileNames |-> {}]

\* The Debug text of the error a collaborator returned, as one token.
ErrorText(stage) ==
    CASE stage = "entropy" -> <<"<getrandom::Error>">>
      [] stage = "mnemonic" -> <<"<bip39::Error>">>
      [] stage = "master_key" -> <<"<bip32::Error>">>
      [] OTHER -> <<"<io::Error>">>

\* Variant, not part of the model: the failed statement is tried again.
ReturnErrRetry(stage) ==
    /\ pc' = pc
    /\ exit_code' = exit_code
    /\ console' = console
    /\ console_args' = console_args
    /\ trace' = Append(trace, stage)
    /\ failed' = failed

\* A statement of main returned Err through `?`: main returns it, the
\* runtime prints "Error: {:?}" and the process exits with status 1.
ReturnErr(stage) ==
    /\ pc' = "exit"
    /\ exit_code' = 1
    /\ console' = Append(console, <<"E","r","r","o","r",":"," ">> \o ErrorText(stage))
    /\ console_args' = console_args \cup {"error"}
    /\ trace' = Append(trace, stage)
    /\ failed' = stage

\* A statement of main completed: control moves to the next one.
Done(stage, next, lines, args) ==
    /\ pc' = next
    /\ exit_code' = exit_code
    /\ console' = console \o lines
    /\ console_args' = console_args \cup args
    /\ trace' = Append(trace, stage)
    /\ failed' = failed

\* lines 167-172
Banner ==
    /\ pc = "start"
    /\ pc' = "entropy"
    /\ console' = console \o <<
         Rep("U2550", 63),
         <<" "," "," "," "," "," "," "," ","B","i","t","c","o","i","n"," ","K","e","y"," ","G","e","n","e","r","a","t","o","r"," ","-"," ","A","i","r","-","G","a","p","p","e","d"," ","E","d","i","t","i","o","n">>,
         Rep("U2550", 63),
         <<>>,
         <<"G","e","n","e","r","a","t","i","n","g"," ","s","e","c","u","r","e"," ","B","I","P","3","9"," ","m","n","e","m","o","n","i","c"," ","s","e","e","d"," ","p","h","r","a","s","e",".",".",".">>,
         <<>> >>
    /\ UNCHANGED <<locals, disk, exit_code, history>>

\* line 21: getrandom::fill(&mut entropy)?
FillEntropyOk ==
    /\ pc = "entropy"
    /\ \E e \in EntropySamples : entropy' = e
    /\ Done("entropy", "encode", <<>>, {})
    /\ UNCHANGED <<mnemonic, seed, master_key, fingerprint, label,
                   printable_content, word_list, import_list, disk,
                   files0, file_args>>

FillEntropyErr ==
    /\ pc = "entropy"
    /\ ReturnErr("entropy")
    /\ UNCHANGED <<locals, disk, files0, file_args>>

\* lines 23-24 and 175-176: Mnemonic::from_entropy(&entropy)?; the buffer
\* goes out of scope when generate_mnemonic returns.
FromEntropyOk ==
    /\ pc = "encode"
    /\ mnemonic' = MnemonicFromEntropy(entropy)
    /\ entropy' = <<>>
    /\ Done("mnemonic", "seed",
            << <<"U2713">> \o <<" ","G","e","n","e","r","a","t","e","d"," ","2","4","-","w","o","r","d"," ","B","I","P","3","9"," ","m","n","e","m","o","n","i","c">> >>, {})
    /\ UNCHANGED <<seed, master_key, fingerprint, label, printable_content,
                   word_list, import_list, disk, files0, file_args>>

FromEntropyErr ==
    /\ pc = "encode"
    /\ entropy' = <<>>
    /\ ReturnErr("mnemonic")
    /\ UNCHANGED <<mnemonic, seed, master_key, fingerprint, label,
                   printable_content, word_list, import_list, disk,
                   files0, file_args>>

\* line 179: generate_seed(&mnemonic, "")
DeriveSeed ==
    /\ pc = "seed"
    /\ seed' = GenerateSeed(mnemonic, <<>>)
    /\ Done("seed", "master_key", <<>>, {})
    /\ UNCHANGED <<entropy, mnemonic, master_key, fingerprint, label,
                   printable_content, word_list, import_list, disk,
                   files0, file_args>>

\* lines 180-181: derive_master_key(&seed, Network::Bitcoin)?
DeriveMasterKeyOk ==
    /\ pc = "master_key"
    /\ master_key' = DeriveMasterKey(seed, "bitcoin")
    /\ Done("master_key", "fingerprint",
            << <<"U2713">> \o <<" ","D","e","r","i","v","e","d"," ","m","a","s","t","e","r"," ","p","r","i","v","a","t","e"," ","k","e","y">> >>, {})
    /\ UNCHANGED <<entropy, mnemonic, seed, fingerprint, label,
                   printable_content, word_list, import_list, disk,
                   files0, file_args>>

DeriveMasterKeyErr ==
    /\ pc = "master_key"
    /\ ReturnErr("master_key")
    /\ UNCHANGED <<locals, disk, files0, file_args>>

\* lines 184-185
FingerprintLine(fp) == <<"U2713">> \o <<" ","C","a","l","c","u","l","a","t","e","d"," ","f","i","n","g","e","r","p","r","i","n","t",":"," ">> \o fp

\* Variant, not part of the model: the key on the fingerprint line.
FingerprintLineWithKey(fp) ==
    <<"U2713">> \o <<" ","C","a","l","c","u","l","a","t","e","d"," ","f","i","n","g","e","r","p","r","i","n","t",":"," ">> \o fp \o <<" ","o","f"," ">> \o <<"<xprv>">>

\* Variant, not part of the model: prints the master key with the fingerprint.
ComputeFingerprintLeaky ==
    /\ pc = "fingerprint"
    /\ fingerprint' = GetHardwareWalletFingerprint(master_key)
    /\ Done("fingerprint", "label",
            <<FingerprintLineWithKey(fingerprint')>>,
            {"fingerprint", "master_key"})
    /\ UNCHANGED <<entropy, mnemonic, seed, master_key, label,
                   printable_content, word_list, import_list, disk,
                   files0, file_args>>

ComputeFingerprint ==
    /\ pc = "fingerprint"
    /\ fingerprint' = GetHardwareWalletFingerprint(master_key)
    /\ Done("fingerprint", "label", <<FingerprintLine(fingerprint')>>,
            {"fingerprint"})
    /\ UNCHANGED <<entropy, mnemonic, seed, master_key, label,
                   printable_content, word_list, import_list, disk,
                   files0, file_args>>

\* Variant, not part of the model: the directory is never created.
ReadLabelSkipDir ==
    /\ pc = "label"
    /\ \E args \in {<<>>} \cup {<<l>> : l \in ArgLabels} :
         label' = IF Len(args) >= 1 THEN args[1] ELSE DefaultLabel
    /\ Done("label", "render_printable", <<>>, {})
    /\ UNCHANGED <<entropy, mnemonic, seed, master_key, fingerprint,
                   printable_content, word_list, import_list, disk,
                   files0, file_args>>

\* lines 188-190
ReadLabel ==
    /\ pc = "label"
    /\ \E args \in {<<>>} \cup {<<l>> : l \in ArgLabels} :
         label' = IF Len(args) >= 1 THEN args[1] ELSE DefaultLabel
    /\ Done("label", "mkdir", <<>>, {})
    /\ UNCHANGED <<entropy, mnemonic, seed, master_key, fingerprint,
                   printable_content, word_list, import_list, disk,
                   files0, file_args>>

\* line 194: fs::create_dir_all(output_dir)?
CreateDirOk ==
    /\ pc = "mkdir"
    /\ dir_exists' = TRUE
    /\ Done("mkdir", "render_printable", <<>>, {})
    /\ UNCHANGED <<locals, files, files0, file_args>>

CreateDirErr ==
    /\ pc = "mkdir"
    /\ ReturnErr("mkdir")
    /\ UNCHANGED <<locals, disk, files0, file_args>>

\* line 197: create_printable_output(&mnemonic, &fingerprint, &label)
RenderPrintable ==
    /\ pc = "render_printable"
    /\ \E now \in Timestamps :
         printable_content' =
             CreatePrintableOutput(mnemonic, fingerprint, label, now)
    /\ Done("render_printable", "create_printable", <<>>, {})
    /\ UNCHANGED <<entropy, mnemonic, seed, master_key, fingerprint, label,
                   word_list, import_list, disk, files0, file_args>>

\* line 199: fs::File::create(&printable_file)? creates or truncates
CreatePrintableOk ==
    /\ pc = "create_printable"
    /\ files' = [files EXCEPT !["seed_phrase_printable.txt"] =
                     [exists |-> TRUE, data |-> <<>>]]
    /\ file_args' = [file_args EXCEPT !["seed_phrase_printable.txt"] = {}]
    /\ Done("create_printable", "write_printable", <<>>, {})
    /\ UNCHANGED <<locals, dir_exists, files0>>

CreatePrintableErr ==
    /\ pc = "create_printable"
    /\ ReturnErr("create_printable")
    /\ UNCHANGED <<locals, disk, files0, file_args>>

PrintableArgs == {"mnemonic.words", "fingerprint", "label", "timestamp"}

\* lines 200-201: file.write_all(printable_content.as_bytes())?
WritePrintableOk ==
    /\ pc = "write_printable"
    /\ files' = [files EXCEPT !["seed_phrase_printable.txt"] =
                     [exists |-> TRUE, data |-> printable_content]]
    /\ file_args' = [file_args EXCEPT !["seed_phrase_printable.txt"] =
                         PrintableArgs]
    /\ Done("write_printable", "render_simple",
            << <<"U2713">> \o <<" ","C","r","e","a","t","e","d"," ","p","r","i","n","t","a","b","l","e"," ","f","i","l","e",":"," ">> \o PrintableFile >>,
            {"printable_file"})
    /\ UNCHANGED <<locals, dir_exists, files0>>

WritePrintableErr ==
    /\ pc = "write_printable"
    /\ \E part \in {0, Len(printable_content) \div 2} :
         /\ files' = [files EXCEPT !["seed_phrase_printable.txt"] =
                [exists |-> TRUE, data |-> SubSeq(printable_content, 1, part)]]
         /\ file_args' = [file_args EXCEPT !["seed_phrase_printable.txt"] =
                IF part = 0 THEN {} ELSE PrintableArgs]
    /\ ReturnErr("write_printable")
    /\ UNCHANGED <<locals, dir_exists, files0>>

\* line 204: create_simple_word_list(&mnemonic)
RenderSimple ==
    /\ pc = "render_simple"
    /\ word_list' = CreateSimpleWordList(mnemonic)
    /\ Done("render_simple", "write_simple", <<>>, {})
    /\ UNCHANGED <<entropy, mnemonic, seed, master_key, fingerprint, label,
                   printable_content, import_list, disk, files0, file_args>>

\* lines 206-207: fs::write(&word_list_file, word_list)?
WriteSimpleOk ==
    /\ pc = "write_simple"
    /\ files' = [files EXCEPT !["seed_words_simple.txt"] =
                     [exists |-> TRUE, data |-> word_list]]
    /\ file_args' = [file_args EXCEPT !["seed_words_simple.txt"] =
                         {"mnemonic.words"}]
    /\ Done("write_simple", "render_import",
            << <<"U2713">> \o <<" ","C","r","e","a","t","e","d"," ","s","i","m","p","l","e"," ","w","o","r","d"," ","l","i","s","t",":"," ">> \o WordListFile >>,
            {"word_list_file"})
    /\ UNCHANGED <<locals, dir_exists, files0>>

\* Variant, not part of the model: a failed write removes the output files.
WriteSimpleErrCleanup ==
    /\ pc = "write_simple"
    /\ files' = [f \in FileNames |-> NoFile]
    /\ file_args' = [f \in FileNames |-> {}]
    /\ ReturnErr("write_simple")
    /\ UNCHANGED <<locals, dir_exists, files0>>

WriteSimpleErr ==
    /\ pc = "write_simple"
    /\ \E left \in FailedWrites(files["seed_words_simple.txt"], word_list) :
         /\ files' = [files EXCEPT !["seed_words_simple.txt"] = left]
         /\ file_args' = [file_args EXCEPT !["seed_words_simple.txt"] =
                IF left = files["seed_words_simple.txt"] THEN @
                ELSE IF left.data = <<>> THEN {} ELSE {"mnemonic.words"}]
    /\ ReturnErr("write_simple")
    /\ UNCHANGED <<locals, dir_exists, files0>>

\* line 213: mnemonic.words().collect::<Vec<_>>().join("\n")
RenderImport ==
    /\ pc = "render_import"
    /\ import_list' = ImportList(mnemonic)
    /\ Done("render_import", "write_import", <<>>, {})
    /\ UNCHANGED <<entropy, mnemonic, seed, master_key, fingerprint, label,
                   printable_content, word_list, disk, files0, file_args>>

\* Variant, not part of the model: the file is opened for appending.
WriteImportOkAppend ==
    /\ pc = "write_import"
    /\ files' = [files EXCEPT !["seed_words_for_coldcard.txt"] =
                     [exists |-> TRUE, data |-> @.data \o import_list]]
    /\ file_args' = [file_args EXCEPT !["seed_words_for_coldcard.txt"] =
                         {"mnemonic.words"}]
    /\ Done("write_import", "summary",
            << <<"U2713">> \o <<" ","C","r","e","a","t","e","d"," ","C","o","l","d","c","a","r","d"," ","i","m","p","o","r","t"," ","f","i","l","e",":"," ">> \o SeedWordsFile >>,
            {"seed_words_file"})
    /\ UNCHANGED <<locals, dir_exists, files0>>

\* lines 211-215: fs::write(&seed_words_file, ...)?
WriteImportOk ==
    /\ pc = "write_import"
    /\ files' = [files EXCEPT !["seed_words_for_coldcard.txt"] =
                     [exists |-> TRUE, data |-> import_list]]
    /\ file_args' = [file_args EXCEPT !["seed_words_for_coldcard.txt"] =
                         {"mnemonic.words"}]
    /\ Done("write_import", "summary",
            << <<"U2713">> \o <<" ","C","r","e","a","t","e","d"," ","C","o","l","d","c","a","r","d"," ","i","m","p","o","r","t"," ","f","i","l","e",":"," ">> \o SeedWordsFile >>,
            {"seed_words_file"})
    /\ UNCHANGED <<locals, dir_exists, files0>>

WriteImportErr ==
    /\ pc = "write_import"
    /\ \E left \in FailedWrites(files["seed_words_for_coldcard.txt"], import_list) :
         /\ files' = [files EXCEPT !["seed_words_for_coldcard.txt"] = left]
         /\ file_args' = [file_args EXCEPT !["seed_words_for_coldcard.txt"] =
                IF left = files["seed_words_for_coldcard.txt"] THEN @
                ELSE IF left.data = <<>> THEN {} ELSE {"mnemonic.words"}]
    /\ ReturnErr("write_import")
    /\ UNCHANGED <<locals, dir_exists, files0>>

\* lines 217-239: the closing notes, then Ok(())
SummaryLines(fp) == <<
    <<>>,
    Rep("U2550", 63),
    <<" "," "," "," "," "," "," "," "," "," "," "," "," "," "," "," "," "," "," "," ","G","E","N","E","R","A","T","I","O","N"," ","C","O","M","P","L","E","T","E">>,
    Rep("U2550", 63),
    <<>>,
    <<"F","i","l","e","s"," ","c","r","e","a","t","e","d"," ","i","n",":"," ">> \o OutputDir,
    <<>>,
    <<"I","M","P","O","R","T","A","N","T"," ","S","E","C","U","R","I","T","Y"," ","N","O","T","E","S",":">>,
    Rep("U2500", 61),
    <<"1","."," ","P","r","i","n","t"," ","t","h","e"," ","'","s","e","e","d","_","p","h","r","a","s","e","_","p","r","i","n","t","a","b","l","e",".","t","x","t","'"," ","f","i","l","e"," ","f","o","r"," ","m","e","t","a","l"," ","p","l","a","t","e">>,
    <<"2","."," ","V","e","r","i","f","y"," ","a","l","l"," ","w","o","r","d","s"," ","a","r","e"," ","c","o","r","r","e","c","t"," ","b","e","f","o","r","e"," ","p","u","n","c","h","i","n","g">>,
    <<"3","."," ","S","t","o","r","e"," ","m","e","t","a","l"," ","p","l","a","t","e"," ","i","n"," ","s","e","c","u","r","e",","," ","f","i","r","e","p","r","o","o","f"," ","l","o","c","a","t","i","o","n">>,
    <<"4","."," ","C","r","e","a","t","e"," ","b","a","c","k","u","p"," ","c","o","p","y"," ","i","n"," ","s","e","p","a","r","a","t","e"," ","l","o","c","a","t","i","o","n">>,
    <<"5","."," ","D","e","l","e","t","e"," ","a","l","l"," ","f","i","l","e","s"," ","f","r","o","m"," ","t","h","i","s"," ","c","o","m","p","u","t","e","r"," ","a","f","t","e","r"," ","p","r","i","n","t","i","n","g">>,
    <<"6","."," ","N","e","v","e","r"," ","s","t","o","r","e"," ","s","e","e","d"," ","p","h","r","a","s","e","s"," ","o","n"," ","i","n","t","e","r","n","e","t","-","c","o","n","n","e","c","t","e","d"," ","d","e","v","i","c","e","s">>,
    <<"7","."," ","T","e","s","t"," ","i","m","p","o","r","t"," ","o","n"," ","h","a","r","d","w","a","r","e"," ","w","a","l","l","e","t"," ","w","i","t","h"," ","s","m","a","l","l"," ","a","m","o","u","n","t"," ","f","i","r","s","t">>,
    Rep("U2500", 61),
    <<>>,
    <<"F","i","n","g","e","r","p","r","i","n","t",":"," ">> \o fp,
    <<"(","V","e","r","i","f","y"," ","t","h","i","s"," ","m","a","t","c","h","e","s"," ","y","o","u","r"," ","h","a","r","d","w","a","r","e"," ","w","a","l","l","e","t"," ","a","f","t","e","r"," ","i","m","p","o","r","t",")">>,
    <<>> >>

Summary ==
    /\ pc = "summary"
    /\ pc' = "exit"
    /\ exit_code' = 0
    /\ console' = console \o SummaryLines(fingerprint)
    /\ console_args' = console_args \cup {"output_dir", "fingerprint"}
    /\ UNCHANGED <<locals, disk, trace, failed, files0, file_args>>

\* The program is started again: a new process, the same disk.
NewRun ==
    /\ pc = "exit"
    /\ pc' = "start"
    /\ entropy' = <<>>
    /\ mnemonic' = <<>>
    /\ seed' = NoSeed
    /\ master_key' = NoKey
    /\ fingerprint' = <<>>
    /\ label' = <<>>
    /\ printable_content' = <<>>
    /\ word_list' = <<>>
    /\ import_list' = <<>>
    /\ console' = <<>>
    /\ exit_code' = -1
    /\ trace' = <<>>
    /\ failed' = "none"
    /\ files0' = files
    /\ console_args' = {}
    /\ UNCHANGED <<disk, file_args>>

Next ==
    \/ Banner
    \/ FillEntropyOk
    \/ FillEntropyErr
    \/ FromEntropyOk
    \/ FromEntropyErr
    \/ DeriveSeed
    \/ DeriveMasterKeyOk
    \/ DeriveMasterKeyErr
    \/ ComputeFingerprint
    \/ ReadLabel
    \/ CreateDirOk
    \/ CreateDirErr
    \/ RenderPrintable
    \/ CreatePrintableOk
    \/ CreatePrintableErr
    \/ WritePrintableOk
    \/ WritePrintableErr
    \/ RenderSimple
    \/ WriteSimpleOk
    \/ WriteSimpleErr
    \/ RenderImport
    \/ WriteImportOk
    \/ WriteImportErr
    \/ Summary
    \/ NewRun

Spec == Init /\ [][Next]_vars

\* ------------------------------------------------------------------------
\* The functions on their own, as the unit tests call them
\* ------------------------------------------------------------------------

\* Every variable main does not share with a test.
Idle ==
    /\ dir_exists = FALSE
    /\ files = [f \in FileNames |-> NoFile]
    /\ console = <<>>
    /\ exit_code = -1
    /\ trace = <<>>
    /\ failed = "none"
    /\ files0 = files
    /\ console_args = {}
    /\ file_args = [f \in FileNames |-> {}]

\* Bytes a fingerprint can hold: zero, one hex digit, two, the extremes.
ByteSamples == {0, 1, 9, 10, 15, 16, 160, 255}

TestKeys ==
    {[network |-> "bitcoin", seed |-> NoSeed, ident |-> <<b0, b1, b2, b3>>] :
        b0 \in ByteSamples, b1 \in ByteSamples, b2 \in ByteSamples,
        b3 \in ByteSamples}

InitFingerprint ==
    /\ pc = "test"
    /\ entropy = <<>>
    /\ mnemonic = <<>>
    /\ seed = NoSeed
    /\ master_key \in TestKeys
    /\ fingerprint = <<>>
    /\ label = <<>>
    /\ printable_content = <<>>
    /\ word_list = <<>>
    /\ import_list = <<>>
    /\ Idle

\* tests::test_get_hardware_wallet_fingerprint, tests::test_fingerprint_format
TestFingerprint ==
    /\ pc = "test"
    /\ pc' = "done"
    /\ fingerprint' = GetHardwareWalletFingerprint(master_key)
    /\ UNCHANGED <<entropy, mnemonic, seed, master_key, label,
                   printable_content, word_list, import_list, disk, console,
                   exit_code, history>>

SpecFingerprint == InitFingerprint /\ [][TestFingerprint]_vars

\* Mnemonics of 0..MaxWords words and of 24 words.
TestMnemonics ==
    {SubSeq(MnemonicFromEntropy(EntropySample(s)), 1, n) :
        s \in 1..NumTestEntropy, n \in (0..MaxWords) \cup {WordCount}}

TestLabels == ArgLabels \cup {DefaultLabel, <<>>}

TestFingerprints ==
    {FmtFingerprint(U32FromBeBytes(b)) :
        b \in {<<0, 0, 0, 0>>, <<222, 173, 190, 239>>}}

InitRender ==
    /\ pc = "test"
    /\ entropy = <<>>
    /\ mnemonic \in TestMnemonics
    /\ seed = NoSeed
    /\ master_key = NoKey
    /\ fingerprint \in TestFingerprints
    /\ label \in TestLabels
    /\ printable_content = <<>>
    /\ word_list = <<>>
    /\ import_list = <<>>
    /\ Idle

\* tests::test_create_printable_output
TestPrintable ==
    /\ pc = "test"
    /\ pc' = "printable"
    /\ \E now \in Timestamps :
         printable_content' =
             CreatePrintableOutput(mnemonic, fingerprint, label, now)
    /\ UNCHANGED <<entropy, mnemonic, seed, master_key, fingerprint, label,
                   word_list, import_list, disk, console, exit_code, history>>

\* tests::test_create_simple_word_list
TestSimple ==
    /\ pc = "test"
    /\ pc' = "simple"
    /\ word_list' = CreateSimpleWordList(mnemonic)
    /\ UNCHANGED <<entropy, mnemonic, seed, master_key, fingerprint, label,
                   printable_content, import_list, disk, console, exit_code,
                   history>>

\* tests::test_file_generation, lines 419-424
TestImport ==
    /\ pc = "test"
    /\ pc' = "import"
    /\ import_list' = ImportList(mnemonic)
    /\ UNCHANGED <<entropy, mnemonic, seed, master_key, fingerprint, label,
                   printable_content, word_list, disk, console, exit_code,
                   history>>

NextRender ==
    \/ TestPrintable
    \/ TestSimple
    \/ TestImport

SpecRender == InitRender /\ [][NextRender]_vars

\* ------------------------------------------------------------------------
\* Reading the texts back
\* ------------------------------------------------------------------------

LowerHexChars == {HexDigit[i] : i \in 1..16}

\* The two lowercase hex digits of a byte, high nibble first.
TwoHex(b) == <<HexDigit[(b \div 16) + 1], HexDigit[(b % 16) + 1]>>

DigitValue(c) == CHOOSE d \in 0..9 : DecDigit[d + 1] = c

IsDigit(c) == \E d \in 0..9 : DecDigit[d + 1] = c

\* A field of width 2 holding a right-aligned number below 100.
IsIndexField(f) ==
    /\ Len(f) = 2
    /\ IsDigit(f[2])
    /\ f[1] = " " \/ (IsDigit(f[1]) /\ f[1] # "0")

IndexValue(f) ==
    IF f[1] = " " THEN DigitValue(f[2])
    ELSE 10 * DigitValue(f[1]) + DigitValue(f[2])

\* s without its trailing spaces
RECURSIVE TrimEnd(_)
TrimEnd(s) ==
    IF Len(s) > 0 /\ s[Len(s)] = " " THEN TrimEnd(SubSeq(s, 1, Len(s) - 1))
    ELSE s

\* A line "<index>. <word>" read as <<index, word>>; <<-1, line>> when it
\* has not that shape.
ReadNumbered(line) ==
    IF /\ Len(line) > 4
       /\ IsIndexField(SubSeq(line, 1, 2))
       /\ SubSeq(line, 3, 4) = <<".", " ">>
    THEN <<IndexValue(SubSeq(line, 1, 2)), SubSeq(line, 5, Len(line))>>
    ELSE <<-1, line>>

\* The (index, word) pairs of a text of numbered lines.
ReadNumberedLines(text) ==
    LET ls == Lines(text) IN [i \in 1..Len(ls) |-> ReadNumbered(ls[i])]

\* Width of a grid cell with what separates it from the next.
CellPitch == IndexWidth + 2 + WordWidth + 2

\* The cells of one grid line, each read as <<index, word>>.
ReadGridLine(line) ==
    LET n == (Len(line) + CellPitch - 1) \div CellPitch
        cell(k) == SubSeq(line, CellPitch * (k - 1) + 1,
                          IF CellPitch * k <= Len(line)
                          THEN CellPitch * k ELSE Len(line))
    IN  [k \in 1..n |->
            LET c == ReadNumbered(TrimEnd(cell(k)))
            IN  IF Len(cell(k)) >= CellPitch - 2 THEN c ELSE <<-1, cell(k)>>]

\* The text of out between the first occurrence of before and the next
\* occurrence of after; <<"?">> when either is missing.
Between(out, before, after) ==
    LET b == Find(out, before, 1)
        a == IF b = 0 THEN 0 ELSE Find(out, after, b + Len(before))
    IN  IF b = 0 \/ a = 0 THEN <<"?">>
        ELSE SubSeq(out, b + Len(before), a - 1)

\* The grid of a printable report: what lies between the SEED WORDS heading
\* and the checklist.
GridOf(out) == Between(out, SeedWordsHeading, ChecklistText)

\* The single-column list of a printable report.
SingleColumnOf(out) == Between(out, SingleColumnHeading, SingleColumnRule)

\* The (index, word) pairs a mnemonic stands for.
Pairs(m) == [i \in 1..Len(m) |-> <<i, Words(m)[i]>>]

\* ------------------------------------------------------------------------
\* Properties of the formatters
\* ------------------------------------------------------------------------

\* C6: for every 4-byte key fingerprint (b0,b1,b2,b3),
\* get_hardware_wallet_fingerprint returns exactly 8 characters, each in
\* 0-9a-f, equal to the two hex digits of b0, then b1, then b2, then b3,
\* leading zeros kept; the result is this function of the key's bytes alone.
C6_FingerprintFormat ==
    pc = "done" =>
        LET b == master_key.ident
        IN  /\ Len(fingerprint) = 8
            /\ \A i \in 1..Len(fingerprint) : fingerprint[i] \in LowerHexChars
            /\ fingerprint =
                   TwoHex(b[1]) \o TwoHex(b[2]) \o TwoHex(b[3]) \o TwoHex(b[4])

\* A key whose first byte is zero and whose second has a zero high nibble.
C6_Witness ==
    /\ pc = "done"
    /\ master_key.ident = <<0, 10, 255, 1>>
    /\ fingerprint = <<"0", "0", "0", "a", "f", "f", "0", "1">>

\* C7: for every 24-word mnemonic, create_simple_word_list returns exactly
\* 24 lines and nothing else; line i is the index i right-aligned in a field
\* of width 2, then ". ", then the i-th word.
C7_SimpleWordList ==
    (pc = "simple" /\ Len(mnemonic) = WordCount) =>
        LET pieces == Split(word_list)
        IN  /\ Len(pieces) = WordCount + 1
            /\ pieces[WordCount + 1] = <<>>
            /\ \A i \in 1..WordCount :
                 /\ IsIndexField(SubSeq(pieces[i], 1, 2))
                 /\ IndexValue(SubSeq(pieces[i], 1, 2)) = i
                 /\ SubSeq(pieces[i], 3, 4) = <<".", " ">>
                 /\ SubSeq(pieces[i], 5, Len(pieces[i])) = Words(mnemonic)[i]

C7_Witness ==
    /\ pc = "simple"
    /\ Len(mnemonic) = WordCount
    /\ Len(Lines(word_list)) = WordCount
    /\ ReadNumberedLines(word_list)[10] = <<10, Words(mnemonic)[10]>>

C10_Grid ==
    pc = "printable" =>
        LET n == Len(mnemonic)
            text == GridOf(printable_content)
            grid == Lines(text)
        IN  /\ Concat([r \in 1..Len(grid) |-> ReadGridLine(grid[r])])
                   = Pairs(mnemonic)
            /\ \A r \in 1..Len(grid) :
                 /\ Len(ReadGridLine(grid[r])) <= GridColumns
                 /\ r < Len(grid) => Len(ReadGridLine(grid[r])) = GridColumns
                 /\ grid[r] # <<>>
            /\ n > 0 => text[Len(text)] = NL
            /\ n = 0 => text = <<>>
            /\ Len(grid) = (n + GridColumns - 1) \div GridColumns

\* Five words: a full row and a row of one cell.
C10_Witness ==
    /\ pc = "printable"
    /\ Len(mnemonic) = 5
    /\ Len(Lines(GridOf(printable_content))) = 2
    /\ Len(ReadGridLine(Lines(GridOf(printable_content))[2])) = 1

\* ------------------------------------------------------------------------
\* Properties of main
\* ------------------------------------------------------------------------

\* The stages of main in the order of its statements.
CodeOrder == <<"entropy", "mnemonic", "seed", "master_key", "fingerprint",
               "label", "mkdir", "render_printable", "create_printable",
               "write_printable", "render_simple", "write_simple",
               "render_import", "write_import">>

\* The stages that can return Err.
FallibleStages == {"entropy", "mnemonic", "master_key", "mkdir",
                   "create_printable", "write_printable", "write_simple",
                   "write_import"}

Entered(stage) == \E i \in DOMAIN trace : trace[i] = stage

Times(stage) == Cardinality({i \in DOMAIN trace : trace[i] = stage})

\* If b has been entered, a was entered before it.
Before(a, b) ==
    \A j \in DOMAIN trace :
        trace[j] = b => \E i \in 1..(j - 1) : trace[i] = a

\* C1: if any stage fails, the run terminates with a non-zero status at that
\* stage, no later stage is executed, and no stage is attempted a second
\* time; the run exits 0 only if every stage succeeded.
C1_FailFast ==
    /\ exit_code \in {-1, 0, 1}
    /\ (pc = "exit") = (exit_code # -1)
    /\ failed # "none" =>
         /\ failed \in FallibleStages
         /\ pc = "exit"
         /\ exit_code = 1
         /\ trace # <<>>
         /\ trace[Len(trace)] = failed
    /\ exit_code = 1 => failed # "none"
    /\ \A s \in FallibleStages : Times(s) <= 1
    /\ exit_code = 0 =>
         /\ failed = "none"
         /\ trace = CodeOrder

\* The last file write failed, after everything before it was done.
C1_Witness ==
    /\ failed = "write_import"
    /\ exit_code = 1
    /\ Len(trace) = Len(CodeOrder)

\* C2: after a run that succeeded, whatever ran before, the output directory
\* holds the three files, each non-empty, all three renderings of the one
\* mnemonic generated in that run (entropy is sampled once per run; what
\* earlier runs wrote is overwritten).
C2_FilesOfLastRun ==
    (pc = "exit" /\ exit_code = 0) =>
        /\ dir_exists
        /\ \A f \in FileNames : files[f].exists /\ files[f].data # <<>>
        /\ Times("entropy") = 1
        /\ Len(mnemonic) = WordCount
        /\ \E now \in Timestamps :
             files["seed_phrase_printable.txt"].data =
                 CreatePrintableOutput(mnemonic, fingerprint, label, now)
        /\ ReadNumberedLines(files["seed_words_simple.txt"].data)
             = Pairs(mnemonic)
        /\ Split(files["seed_words_for_coldcard.txt"].data) = Words(mnemonic)

\* A successful run over the files of an earlier run with another mnemonic.
C2_Witness ==
    /\ pc = "exit"
    /\ exit_code = 0
    /\ \A f \in FileNames : files0[f].exists /\ files0[f].data # <<>>
    /\ Split(files0["seed_words_for_coldcard.txt"].data) # Words(mnemonic)
    /\ Split(files["seed_words_for_coldcard.txt"].data) = Words(mnemonic)

\* C3: if a file write fails after earlier writes of the run succeeded, the
\* earlier files stay on disk with this run's contents, the files whose
\* write was not reached are as they were before the run, and the run ends
\* with a non-zero status.
C3_PartialOutput ==
    /\ failed = "write_simple" =>
         /\ exit_code = 1
         /\ printable_content # <<>>
         /\ files["seed_phrase_printable.txt"] =
                [exists |-> TRUE, data |-> printable_content]
         /\ files["seed_words_for_coldcard.txt"] =
                files0["seed_words_for_coldcard.txt"]
    /\ failed = "write_import" =>
         /\ exit_code = 1
         /\ printable_content # <<>>
         /\ files["seed_phrase_printable.txt"] =
                [exists |-> TRUE, data |-> printable_content]
         /\ word_list # <<>>
         /\ files["seed_words_simple.txt"] =
                [exists |-> TRUE, data |-> word_list]

\* A failed rerun: the printable report is of this run's mnemonic, the
\* import list is still the one of an earlier run with another mnemonic.
C3_Witness ==
    /\ failed = "write_simple"
    /\ files["seed_phrase_printable.txt"].data = printable_content
    /\ Contains(printable_content, SingleColumn(Words(mnemonic)))
    /\ files["seed_words_for_coldcard.txt"].exists
    /\ Len(Split(files["seed_words_for_coldcard.txt"].data)) = WordCount
    /\ Split(files["seed_words_for_coldcard.txt"].data) # Words(mnemonic)

\* C4 as stated: entropy, mnemonic, seed, master key, fingerprint, then the
\* rendering of all three artifacts, then the output directory, then the
\* three file writes.
C4_SpecOrder ==
    /\ Before("entropy", "mnemonic")
    /\ Before("mnemonic", "seed")
    /\ Before("seed", "master_key")
    /\ Before("master_key", "fingerprint")
    /\ \A r \in {"render_printable", "render_simple", "render_import"} :
         /\ Before("fingerprint", r)
         /\ Before(r, "mkdir")
         /\ Before(r, "create_printable")
    /\ Before("mkdir", "create_printable")
    /\ Before("create_printable", "write_printable")
    /\ Before("write_printable", "write_simple")
    /\ Before("write_simple", "write_import")

\* C4 (amended): entropy, mnemonic, seed, master key, fingerprint, then the
\* output directory, then for the printable report, the simple list and the
\* import list in turn: the rendering of the artifact, then its file write.
C4_CodeOrder ==
    /\ \A i \in 1..(Len(CodeOrder) - 1) :
         Before(CodeOrder[i], CodeOrder[i + 1])
    /\ \A i \in DOMAIN trace : \E k \in DOMAIN CodeOrder : trace[i] = CodeOrder[k]

\* The first file is on disk and the other two artifacts are not rendered.
C4_Witness ==
    /\ pc = "render_simple"
    /\ files["seed_phrase_printable.txt"].data = printable_content
    /\ Entered("mkdir")
    /\ ~Entered("render_simple")
    /\ ~Entered("render_import")

\* The values that must not leave the process.
Secrets == {"entropy", "mnemonic", "seed", "master_key"}

\* Every line main can print that holds no value of the run, and the
\* error report of each stage that can fail.
FixedConsoleLines ==
    {Rep("U2550", 63), Rep("U2500", 61), <<>>,
     <<" "," "," "," "," "," "," "," ","B","i","t","c","o","i","n"," ","K","e","y"," ","G","e","n","e","r","a","t","o","r"," ","-"," ","A","i","r","-","G","a","p","p","e","d"," ","E","d","i","t","i","o","n">>,
     <<"G","e","n","e","r","a","t","i","n","g"," ","s","e","c","u","r","e"," ","B","I","P","3","9"," ","m","n","e","m","o","n","i","c"," ","s","e","e","d"," ","p","h","r","a","s","e",".",".",".">>,
     <<"U2713">> \o <<" ","G","e","n","e","r","a","t","e","d"," ","2","4","-","w","o","r","d"," ","B","I","P","3","9"," ","m","n","e","m","o","n","i","c">>,
     <<"U2713">> \o <<" ","D","e","r","i","v","e","d"," ","m","a","s","t","e","r"," ","p","r","i","v","a","t","e"," ","k","e","y">>,
     <<"U2713">> \o <<" ","C","r","e","a","t","e","d"," ","p","r","i","n","t","a","b","l","e"," ","f","i","l","e",":"," ","o","u","t","p","u","t","/","s","e","e","d","_","p","h","r","a","s","e","_","p","r","i","n","t","a","b","l","e",".","t","x","t">>,
     <<"U2713">> \o <<" ","C","r","e","a","t","e","d"," ","s","i","m","p","l","e"," ","w","o","r","d"," ","l","i","s","t",":"," ","o","u","t","p","u","t","/","s","e","e","d","_","w","o","r","d","s","_","s","i","m","p","l","e",".","t","x","t">>,
     <<"U2713">> \o <<" ","C","r","e","a","t","e","d"," ","C","o","l","d","c","a","r","d"," ","i","m","p","o","r","t"," ","f","i","l","e",":"," ","o","u","t","p","u","t","/","s","e","e","d","_","w","o","r","d","s","_","f","o","r","_","c","o","l","d","c","a","r","d",".","t","x","t">>,
     <<" "," "," "," "," "," "," "," "," "," "," "," "," "," "," "," "," "," "," "," ","G","E","N","E","R","A","T","I","O","N"," ","C","O","M","P","L","E","T","E">>,
     <<"F","i","l","e","s"," ","c","r","e","a","t","e","d"," ","i","n",":"," ","o","u","t","p","u","t">>,
     <<"I","M","P","O","R","T","A","N","T"," ","S","E","C","U","R","I","T","Y"," ","N","O","T","E","S",":">>,
     <<"1","."," ","P","r","i","n","t"," ","t","h","e"," ","'","s","e","e","d","_","p","h","r","a","s","e","_","p","r","i","n","t","a","b","l","e",".","t","x","t","'"," ","f","i","l","e"," ","f","o","r"," ","m","e","t","a","l"," ","p","l","a","t","e">>,
     <<"2","."," ","V","e","r","i","f","y"," ","a","l","l"," ","w","o","r","d","s"," ","a","r","e"," ","c","o","r","r","e","c","t"," ","b","e","f","o","r","e"," ","p","u","n","c","h","i","n","g">>,
     <<"3","."," ","S","t","o","r","e"," ","m","e","t","a","l"," ","p","l","a","t","e"," ","i","n"," ","s","e","c","u","r","e",","," ","f","i","r","e","p","r","o","o","f"," ","l","o","c","a","t","i","o","n">>,
     <<"4","."," ","C","r","e","a","t","e"," ","b","a","c","k","u","p"," ","c","o","p","y"," ","i","n"," ","s","e","p","a","r","a","t","e"," ","l","o","c","a","t","i","o","n">>,
     <<"5","."," ","D","e","l","e","t","e"," ","a","l","l"," ","f","i","l","e","s"," ","f","r","o","m"," ","t","h","i","s"," ","c","o","m","p","u","t","e","r"," ","a","f","t","e","r"," ","p","r","i","n","t","i","n","g">>,
     <<"6","."," ","N","e","v","e","r"," ","s","t","o","r","e"," ","s","e","e","d"," ","p","h","r","a","s","e","s"," ","o","n"," ","i","n","t","e","r","n","e","t","-","c","o","n","n","e","c","t","e","d"," ","d","e","v","i","c","e","s">>,
     <<"7","."," ","T","e","s","t"," ","i","m","p","o","r","t"," ","o","n"," ","h","a","r","d","w","a","r","e"," ","w","a","l","l","e","t"," ","w","i","t","h"," ","s","m","a","l","l"," ","a","m","o","u","n","t"," ","f","i","r","s","t">>,
     <<"(","V","e","r","i","f","y"," ","t","h","i","s"," ","m","a","t","c","h","e","s"," ","y","o","u","r"," ","h","a","r","d","w","a","r","e"," ","w","a","l","l","e","t"," ","a","f","t","e","r"," ","i","m","p","o","r","t",")">>}
    \cup {<<"E","r","r","o","r",":"," ">> \o ErrorText(s) : s \in FallibleStages}

\* The two lines that show the fingerprint.
FingerprintLines(fp) ==
    {<<"U2713">> \o <<" ","C","a","l","c","u","l","a","t","e","d"," ","f","i","n","g","e","r","p","r","i","n","t",":"," ">> \o fp,
     <<"F","i","n","g","e","r","p","r","i","n","t",":"," ">> \o fp}

C8_ImportList ==
    (failed = "none" /\ pc \in {"summary", "exit"}) =>
        LET entries == Split(files["seed_words_for_coldcard.txt"].data)
        IN  /\ Len(entries) = WordCount
            /\ \A i \in 1..Len(entries) : entries[i] # <<>>
            /\ entries = Words(mnemonic)

C8_Witness ==
    /\ pc = "summary"
    /\ files["seed_words_for_coldcard.txt"].data = import_list
    /\ Len(Split(import_list)) = WordCount
    /\ Occurrences(import_list, <<NL>>) = WordCount - 1

=============================================================================
